---- MODULE Spec2Model ----
(***************************************************************************)
(* Model of project/utils/score.py: the streaming top-k ranker `rank`, the *)
(* metric functions `recall_score`, `ndcg_coefs`, `ndcg_score` and the     *)
(* reducer `composite`.                                                    *)
(*                                                                         *)
(* Tensors are sequences (1-based; the source is 0-based).  A float is an  *)
(* integer; the values that are no ordinary number have the codes NegInf,  *)
(* NaN and PosInf.  Metric values are fixed-point numbers with Unit = 1.0. *)
(* Storage obtained from torch.empty is never initialised: a slot that was *)
(* never written holds Uninit until the buffer is read, and the read gives *)
(* any value of Garbage.                                                   *)
(***************************************************************************)
EXTENDS Integers, Sequences, FiniteSets, Bags, TLC

VARIABLES
    scr_buf,   \* rank: predicted scores, gbl_cnt rows of 2 * at_k slots
    lbl_buf,   \* rank: ground-truth labels, same shape
    pos_cnt,   \* rank: relevant item count per row
    batch,     \* the batch the loader yielded and the loop body is about to consume
    seen,      \* history: the bag of triples <<id, score, label>> consumed so far
    pc,        \* "loop", "body", "raised", "returned", "scored"
    labels,    \* the label matrix rank returned / the metric functions' `score`
    counts,    \* the count vector rank returned / the metric functions' `total`
    metric,    \* composite: the per-entity vector of each score function
    scores     \* composite: the list of means it returns

vars == <<scr_buf, lbl_buf, pos_cnt, batch, seen, pc, labels, counts, metric, scores>>

-----------------------------------------------------------------------------
(* Bounds of the model.                                                    *)

\* the top-k width the caller passes (the source's default is 20)
at_k == 2
\* scores are 1..MaxScore
MaxScore == 2
\* triples in the whole stream
MaxItems == 3
\* triples in one batch: a batch can hold the whole stream
MaxBatch == MaxItems
\* widest label row and largest count given to a metric function on its own
MaxCount == 3
MaxTotal == 4

-----------------------------------------------------------------------------
(* Values.                                                                 *)

\* -torch.inf, the fill value of the score buffers
NegInf == -1
\* a float that is not a number (0 / 0)
NaN == -2
\* +inf (x / 0 with x > 0)
PosInf == -3
\* content of a slot of torch.empty storage that was never written
Uninit == -4

\* what a read of uninitialised float storage can give
Garbage == {0, 1, NaN}

\* ids of the source nodes in the loader's data
NodeIds == {3, 5}
Scores == 1..MaxScore
Labels == {0, 1}

Range(s) == {s[i] : i \in DOMAIN s}

Max2(a, b) == IF a >= b THEN a ELSE b

Min2(a, b) == IF a <= b THEN a ELSE b

SetMax(S) == CHOOSE m \in S : \A x \in S : x <= m

RECURSIVE SortedSeq(_)
\* the elements of a set of integers in ascending order
SortedSeq(S) ==
    IF S = {} THEN <<>>
    ELSE LET m == CHOOSE x \in S : \A y \in S : x <= y
         IN <<m>> \o SortedSeq(S \ {m})

RECURSIVE SumSeq(_)
SumSeq(s) == IF Len(s) = 0 THEN 0 ELSE Head(s) + SumSeq(Tail(s))

RECURSIVE SeqProduct(_)
\* all sequences that take their i-th element from the i-th set
SeqProduct(sets) ==
    IF Len(sets) = 0 THEN {<<>>}
    ELSE {<<h>> \o t : h \in Head(sets), t \in SeqProduct(Tail(sets))}

\* s without the first occurrence of x
RemoveOne(s, x) ==
    LET i == CHOOSE j \in DOMAIN s : s[j] = x /\ \A k \in 1..(j - 1) : s[k] # x
    IN SubSeq(s, 1, i - 1) \o SubSeq(s, i + 1, Len(s))

-----------------------------------------------------------------------------
(* rank: the registry and the buffers.                                     *)

\* edge_label_index[0].unique(): the ids in ascending order
gbl_uid == SortedSeq(NodeIds)

gbl_cnt == Len(gbl_uid)

\* torch.full([gbl_cnt, 2 * at_k], -inf)
ScrBufInit == [r \in 1..gbl_cnt |-> [c \in 1..(2 * at_k) |-> NegInf]]

\* torch.empty(gbl_cnt, 2 * at_k)
LblBufInit == [r \in 1..gbl_cnt |-> [c \in 1..(2 * at_k) |-> Uninit]]

\* torch.zeros(gbl_cnt)
PosCntInit == [r \in 1..gbl_cnt |-> 0]

-----------------------------------------------------------------------------
(* rank: one iteration of the loop over the batches.  A batch b has        *)
(*   b.n_id        the global id of each local source node,                *)
(*   b.src_idx     the local source node of each triple,                   *)
(*   b.edge_score  the predicted score of each triple,                     *)
(*   b.edge_label  the label of each triple.                               *)

\* batch[src_node].n_id[src_idx]
SrcIds(b) == [i \in DOMAIN b.src_idx |-> b.n_id[b.src_idx[i]]]

\* src_ids.unique(return_counts=True): the ids, ascending
SrcUid(b) == SortedSeq(Range(SrcIds(b)))

\* src_ids.unique(return_counts=True): the count of each id
UidCnt(b) ==
    LET src_ids == SrcIds(b)
        src_uid == SrcUid(b)
    IN [j \in 1..Len(src_uid) |->
           Cardinality({i \in DOMAIN src_ids : src_ids[i] = src_uid[j]})]

\* (gbl_uid.unsqueeze(-1) == src_uid.unsqueeze(-2)).any(dim=-1)
GblMsk(b) ==
    LET src_uid == SrcUid(b)
    IN [r \in 1..gbl_cnt |-> gbl_uid[r] \in Range(src_uid)]

\* gbl_msk.sum().item()
RowCnt(b) == Cardinality({r \in 1..gbl_cnt : GblMsk(b)[r]})

\* max(at_k, uid_cnt.max().item())
ColCnt(b) == Max2(at_k, SetMax(Range(UidCnt(b))))

RECURSIVE CatArange(_)
\* torch.cat([torch.arange(cnt) for cnt in uid_cnt]), 1-based
CatArange(cnts) ==
    IF Len(cnts) = 0 THEN <<>>
    ELSE [c \in 1..Head(cnts) |-> c] \o CatArange(Tail(cnts))

ColIdx(b) == CatArange(UidCnt(b))

\* only the empty batch raises: an index outside the matrix is not checked
RaisesOnEmptyOnly(b) == Len(b.src_idx) = 0

\* uid_cnt.max() of an empty tensor and torch.cat of an empty list raise;
\* scr_tmp[src_idx, col_idx] raises when an index is outside the matrix
Raises(b) ==
    \/ Len(b.src_idx) = 0
    \/ \E i \in DOMAIN b.src_idx : b.src_idx[i] > RowCnt(b)

\* the triples written to cell (row, col) of the temporary matrices
Writers(b, row, col) ==
    LET col_idx == ColIdx(b)
    IN {i \in DOMAIN b.src_idx : b.src_idx[i] = row /\ col_idx[i] = col}

\* scr_tmp[src_idx, col_idx] = edge_score; lbl_tmp[src_idx, col_idx] = edge_label.
\* The cell keeps the fill value when no triple is written to it.  When several
\* are, each of the two assignments keeps one of the values written, and which
\* one is not defined.
TmpCell(b, row, col) ==
    LET w == Writers(b, row, col)
    IN IF w = {}
       THEN {[scr |-> NegInf, lbl |-> Uninit]}
       ELSE {[scr |-> b.edge_score[i], lbl |-> b.edge_label[j]] : i \in w, j \in w}

\* the contents row `row` of (scr_tmp, lbl_tmp) can have after the scatter
TmpRow(b, row) == SeqProduct([col \in 1..ColCnt(b) |-> TmpCell(b, row, col)])

RECURSIVE PickDescending(_, _)
\* the k largest cells by score, largest first; equal scores in any order
PickDescending(cells, k) ==
    IF k = 0 \/ Len(cells) = 0 THEN {<<>>}
    ELSE LET mx == SetMax({cells[i].scr : i \in DOMAIN cells})
             heads == {cells[i] : i \in {j \in DOMAIN cells : cells[j].scr = mx}}
         IN UNION {{<<h>> \o t : t \in PickDescending(RemoveOne(cells, h), k - 1)} :
                      h \in heads}

\* torch.topk(scr_tmp, k=at_k, dim=-1, sorted=False) and lbl_tmp.gather(top_idx)
TopK(cells) == PickDescending(cells, at_k)

\* scr_buf.argsort(dim=-1, descending=True) and the two gathers
ArgSort(cells) == PickDescending(cells, Len(cells))

\* row r of (scr_buf, lbl_buf) as a sequence of cells
BufRow(r) == [c \in 1..(2 * at_k) |-> [scr |-> scr_buf[r][c], lbl |-> lbl_buf[r][c]]]

\* the position of global row r among the rows gbl_msk selects
MskRank(b, r) ==
    LET gbl_msk == GblMsk(b)
    IN Cardinality({q \in 1..r : gbl_msk[q]})

\* scr_buf[:row_cnt, at_k:] = scr_tmp: the rows are taken by their batch-local
\* number instead of the mask
MergeRowUnmasked(old, b, r) ==
    IF r <= RowCnt(b)
    THEN UNION {UNION {ArgSort(SubSeq(old, 1, at_k) \o top) : top \in TopK(tmp)} :
                   tmp \in TmpRow(b, r)}
    ELSE ArgSort(old)

\* scr_buf[gbl_msk, at_k:] = scr_tmp; lbl_buf[gbl_msk, at_k:] = lbl_tmp;
\* then the sort of every row: what row r, holding `old`, can hold afterwards
MergeRow(old, b, r) ==
    IF GblMsk(b)[r]
    THEN UNION {UNION {ArgSort(SubSeq(old, 1, at_k) \o top) : top \in TopK(tmp)} :
                   tmp \in TmpRow(b, MskRank(b, r))}
    ELSE ArgSort(old)

NewRow(b, r) == MergeRow(BufRow(r), b, r)

\* torch.zeros(row_cnt).scatter_add(dim=0, index=src_idx, src=edge_label.int())
ScatterAdd(b) ==
    [row \in 1..RowCnt(b) |->
        SumSeq([i \in DOMAIN b.src_idx |->
                   IF b.src_idx[i] = row THEN b.edge_label[i] ELSE 0])]

\* pos_cnt[gbl_msk] = ...: the counts of the batch replace the running counts
AddPosCntOverwrite(old, b) ==
    [r \in 1..gbl_cnt |->
        IF GblMsk(b)[r] THEN ScatterAdd(b)[MskRank(b, r)] ELSE old[r]]

\* the counts grow by the labels of the triples not consumed before only
AddPosCntOnce(old, b) ==
    [r \in 1..gbl_cnt |->
        old[r] + SumSeq([i \in DOMAIN b.src_idx |->
                    IF /\ SrcIds(b)[i] = gbl_uid[r]
                       /\ CopiesIn(<<SrcIds(b)[i], b.edge_score[i], b.edge_label[i]>>, seen) = 0
                    THEN b.edge_label[i] ELSE 0])]

\* pos_cnt[:row_cnt] += ...: the counts are taken by their batch-local number
\* instead of the mask
AddPosCntUnmasked(old, b) ==
    [r \in 1..gbl_cnt |->
        IF r <= RowCnt(b) THEN old[r] + ScatterAdd(b)[r] ELSE old[r]]

\* pos_cnt[gbl_msk] += ...
AddPosCnt(old, b) ==
    [r \in 1..gbl_cnt |->
        IF GblMsk(b)[r] THEN old[r] + ScatterAdd(b)[MskRank(b, r)] ELSE old[r]]

NewPosCnt(b) == AddPosCnt(pos_cnt, b)

\* the triples of a batch as a bag of <<id, score, label>>
BatchBag(b) ==
    LET ts == {<<SrcIds(b)[i], b.edge_score[i], b.edge_label[i]>> : i \in DOMAIN b.src_idx}
    IN [t \in ts |-> Cardinality({i \in DOMAIN b.src_idx :
                        <<SrcIds(b)[i], b.edge_score[i], b.edge_label[i]>> = t})]

-----------------------------------------------------------------------------
(* The metric functions.                                                   *)

\* log2(n) for n = 1..14 in units of 1/10000, rounded to nearest
Log2Table ==
    <<0, 10000, 15850, 20000, 23219, 25850, 28074, 30000, 31699, 33219, 34594,
      35850, 37004, 38074>>

\* torch.log2
Log2(n) == Log2Table[n]

\* the fixed-point 1.0
Unit == Log2(2)

\* an integer or label as a fixed-point float
ToFix(x) == IF x \in {NaN, PosInf} THEN x ELSE x * Unit

\* float addition (no operand is negative)
FAdd(a, b) ==
    IF a = NaN \/ b = NaN THEN NaN
    ELSE IF a = PosInf \/ b = PosInf THEN PosInf
    ELSE a + b

\* float division (no operand is negative)
FDiv(a, b) ==
    IF a = NaN \/ b = NaN THEN NaN
    ELSE IF a = PosInf THEN (IF b = PosInf THEN NaN ELSE PosInf)
    ELSE IF b = PosInf THEN 0
    ELSE IF b = 0 THEN (IF a = 0 THEN NaN ELSE PosInf)
    ELSE (a * Unit) \div b

RECURSIVE FSum(_)
\* tensor.sum(-1)
FSum(s) == IF Len(s) = 0 THEN 0 ELSE FAdd(Head(s), FSum(Tail(s)))

\* tensor.mean()
Mean(v) == FDiv(FSum(v), ToFix(Len(v)))

\* score.sum(dim=-1) / total
recall_score(score, total) ==
    [i \in DOMAIN score |->
        FDiv(FSum([r \in DOMAIN score[i] |-> ToFix(score[i][r])]), ToFix(total[i]))]

\* torch.log2(torch.arange(count) + 1): the discounts start at log2(1) = 0
ndcg_coefs_from_one(count) == [r \in 1..count |-> Log2(r)]

\* torch.log2(torch.arange(count) + 2)
ndcg_coefs(count) == [r \in 1..count |-> Log2(r + 1)]

\* (arange(count) < stack([total, tally]).amin(-2)) * coefs, for one entity
NdcgTerms(count, tot) ==
    [r \in 1..count |-> IF r - 1 < Min2(tot, count) THEN ndcg_coefs(count)[r] ELSE 0]

\* (score / coefs).sum(-1) / terms.sum(-1)
ndcg_score(score, total) ==
    [i \in DOMAIN score |->
        LET count == Len(score[i])
        IN FDiv(FSum([r \in 1..count |-> FDiv(ToFix(score[i][r]), ndcg_coefs(count)[r])]),
                FSum(NdcgTerms(count, total[i])))]

-----------------------------------------------------------------------------
(* The batches the loader yields.  The link sampler relabels the source    *)
(* nodes of a batch in ascending id order, so n_id lists them that way; the *)
(* triples of a batch come in any order.                                   *)

Triples == [id : NodeIds, scr : Scores, lbl : Labels]

\* the batch that holds the triples ts, in that order
LoaderBatch(ts) ==
    LET ids == SortedSeq({ts[i].id : i \in DOMAIN ts})
    IN [n_id |-> ids,
        src_idx |-> [i \in DOMAIN ts |-> CHOOSE j \in DOMAIN ids : ids[j] = ts[i].id],
        edge_score |-> [i \in DOMAIN ts |-> ts[i].scr],
        edge_label |-> [i \in DOMAIN ts |-> ts[i].lbl]]

\* the sequences of at most maxlen triples
TripleSeqs(maxlen) == UNION {[1..n -> Triples] : n \in 0..maxlen}

NoBatch == LoaderBatch(<<>>)

-----------------------------------------------------------------------------
(* The operations.                                                         *)

Init ==
    /\ scr_buf = ScrBufInit
    /\ lbl_buf = LblBufInit
    /\ pos_cnt = PosCntInit
    /\ batch = NoBatch
    /\ seen = EmptyBag
    /\ pc = "loop"
    /\ labels = <<>>
    /\ counts = <<>>
    /\ metric = <<>>
    /\ scores = <<>>

\* `for batch in loader`: the loader yields the next batch
LoaderNext ==
    /\ pc = "loop"
    /\ \E ts \in TripleSeqs(Min2(MaxBatch, MaxItems - BagCardinality(seen))) :
          batch' = LoaderBatch(ts)
    /\ pc' = "body"
    /\ UNCHANGED <<scr_buf, lbl_buf, pos_cnt, seen, labels, counts, metric, scores>>

\* the body of the loop, when it runs to its end
RankBatch ==
    /\ pc = "body"
    /\ ~Raises(batch)
    /\ \E rows \in SeqProduct([r \in 1..gbl_cnt |-> NewRow(batch, r)]) :
          /\ scr_buf' = [r \in 1..gbl_cnt |-> [c \in 1..(2 * at_k) |-> rows[r][c].scr]]
          /\ lbl_buf' = [r \in 1..gbl_cnt |-> [c \in 1..(2 * at_k) |-> rows[r][c].lbl]]
    /\ pos_cnt' = NewPosCnt(batch)
    /\ seen' = seen (+) BatchBag(batch)
    /\ batch' = NoBatch
    /\ pc' = "loop"
    /\ UNCHANGED <<labels, counts, metric, scores>>

\* the body of the loop, when a statement of it raises: rank ends with the error
RankRaise ==
    /\ pc = "body"
    /\ Raises(batch)
    /\ pc' = "raised"
    /\ UNCHANGED <<scr_buf, lbl_buf, pos_cnt, batch, seen, labels, counts, metric, scores>>

\* what lbl_buf.cpu() can read: a never-written slot gives a value of Garbage
\* (one value for the never-written slots of a row, any combination over rows)
ReadLabels ==
    {[r \in 1..gbl_cnt |->
         [c \in 1..(2 * at_k) |-> IF lbl_buf[r][c] = Uninit THEN g[r] ELSE lbl_buf[r][c]]] :
        g \in [1..gbl_cnt -> Garbage]}

\* return lbl_buf.cpu(), pos_cnt.cpu(), and composite's call of rank
RankReturn ==
    /\ pc = "loop"
    /\ labels' \in ReadLabels
    /\ counts' = pos_cnt
    /\ pc' = "returned"
    /\ UNCHANGED <<scr_buf, lbl_buf, pos_cnt, batch, seen, metric, scores>>

\* the score functions composite is given
score_fns(score, total) == <<recall_score(score, total), ndcg_score(score, total)>>

\* scores = [score_fn(labels, counts).mean() for score_fn in score_fns]
Composite ==
    /\ pc = "returned"
    /\ metric' = score_fns(labels, counts)
    /\ scores' = [f \in 1..2 |-> Mean(score_fns(labels, counts)[f])]
    /\ pc' = "scored"
    /\ UNCHANGED <<scr_buf, lbl_buf, pos_cnt, batch, seen, labels, counts>>

Next == LoaderNext \/ RankBatch \/ RankRaise \/ RankReturn \/ Composite

Spec == Init /\ [][Next]_vars

\* The metric functions on their own: one entity, any 0/1 label row of up to
\* MaxCount slots and any count up to MaxTotal.
InitMetric ==
    /\ scr_buf = ScrBufInit
    /\ lbl_buf = LblBufInit
    /\ pos_cnt = PosCntInit
    /\ batch = NoBatch
    /\ seen = EmptyBag
    /\ pc = "returned"
    /\ labels \in {<<row>> : row \in UNION {[1..n -> Labels] : n \in 1..MaxCount}}
    /\ counts \in {<<p>> : p \in 0..MaxTotal}
    /\ metric = <<>>
    /\ scores = <<>>

SpecMetric == InitMetric /\ [][Composite]_vars

-----------------------------------------------------------------------------
(* rank under other loaders: batches with unregistered nodes, batches with *)
(* any numbering of their source nodes, streams that present a pair again, *)
(* and one batch with a group larger than at_k next to another entity.     *)

\* ids of source nodes that are not in the loader's data
ForeignIds == {1, 4, 7}

\* a triple of a source node outside the registry
ForeignTriples == [id : ForeignIds, scr : {MaxScore}, lbl : {1}]

\* `for batch in loader`, when the loader's edges are not those of loader.data:
\* at least one triple of the batch belongs to a node outside the registry
LoaderNextForeign ==
    /\ pc = "loop"
    /\ \E n \in 1..Min2(MaxBatch, MaxItems - BagCardinality(seen)) :
          \E ts \in [1..n -> Triples \cup ForeignTriples] :
             /\ \E i \in 1..n : ts[i].id \in ForeignIds
             /\ batch' = LoaderBatch(ts)
    /\ pc' = "body"
    /\ UNCHANGED <<scr_buf, lbl_buf, pos_cnt, seen, labels, counts, metric, scores>>

NextForeign == LoaderNext \/ LoaderNextForeign \/ RankBatch \/ RankRaise \/ RankReturn

\* rank over a loader that can yield triples of unregistered nodes
SpecForeign == Init /\ [][NextForeign]_vars

\* `for batch in loader`, for a loader that numbers the source nodes of a batch
\* in any way: n_id is any list of distinct registered ids, and each triple
\* points to the place of the list that holds its entity
LoaderNextAny ==
    /\ pc = "loop"
    /\ \E ts \in TripleSeqs(Min2(MaxBatch, MaxItems - BagCardinality(seen))) :
          \E n_id \in UNION {[1..n -> NodeIds] : n \in 0..gbl_cnt} :
             \E src_idx \in [DOMAIN ts -> DOMAIN n_id] :
                /\ \A p, q \in DOMAIN n_id : n_id[p] = n_id[q] => p = q
                /\ \A i \in DOMAIN ts : n_id[src_idx[i]] = ts[i].id
                /\ Len(ts) = 0 => Len(n_id) = 0
                /\ batch' = [n_id |-> n_id,
                             src_idx |-> src_idx,
                             edge_score |-> [i \in DOMAIN ts |-> ts[i].scr],
                             edge_label |-> [i \in DOMAIN ts |-> ts[i].lbl]]
    /\ pc' = "body"
    /\ UNCHANGED <<scr_buf, lbl_buf, pos_cnt, seen, labels, counts, metric, scores>>

NextAny == LoaderNextAny \/ RankBatch \/ RankRaise

\* rank over a loader that numbers the source nodes of a batch in any way
SpecAny == Init /\ [][NextAny]_vars

\* the triple was consumed in an earlier batch
Presented(t) == CopiesIn(<<t.id, t.scr, t.lbl>>, seen) > 0

\* the sequences of at most maxlen triples without a repetition
DistinctTripleSeqs(maxlen) ==
    {ts \in TripleSeqs(maxlen) : \A i, j \in DOMAIN ts : ts[i] = ts[j] => i = j}

\* `for batch in loader`, when a (score, label) value of an entity stands for
\* one (entity, item) pair: a batch of pairs none of which was presented before
LoaderNextFresh ==
    /\ pc = "loop"
    /\ \E ts \in DistinctTripleSeqs(Min2(MaxBatch, MaxItems - BagCardinality(seen))) :
          /\ \A i \in DOMAIN ts : ~Presented(ts[i])
          /\ batch' = LoaderBatch(ts)
    /\ pc' = "body"
    /\ UNCHANGED <<scr_buf, lbl_buf, pos_cnt, seen, labels, counts, metric, scores>>

\* `for batch in loader`: a batch in which a pair of an earlier batch is
\* presented again
LoaderNextDup ==
    /\ pc = "loop"
    /\ \E ts \in DistinctTripleSeqs(Min2(MaxBatch, MaxItems - BagCardinality(seen))) :
          /\ \E i \in DOMAIN ts : Presented(ts[i])
          /\ batch' = LoaderBatch(ts)
    /\ pc' = "body"
    /\ UNCHANGED <<scr_buf, lbl_buf, pos_cnt, seen, labels, counts, metric, scores>>

NextDup == LoaderNextFresh \/ LoaderNextDup \/ RankBatch \/ RankRaise \/ RankReturn

\* rank over a stream that presents pairs again in later batches
SpecDup == Init /\ [][NextDup]_vars

\* the largest batch of InitWide: room for more than at_k triples of one
\* entity next to a triple of another
MaxWide == at_k + 2

\* the first iteration of the loop, on a batch of up to MaxWide triples
InitWide ==
    /\ scr_buf = ScrBufInit
    /\ lbl_buf = LblBufInit
    /\ pos_cnt = PosCntInit
    /\ batch \in {LoaderBatch(ts) : ts \in TripleSeqs(MaxWide)}
    /\ seen = EmptyBag
    /\ pc = "body"
    /\ labels = <<>>
    /\ counts = <<>>
    /\ metric = <<>>
    /\ scores = <<>>

NextWide == RankBatch \/ RankRaise

\* the loop body of rank on one batch of up to MaxWide triples
SpecWide == InitWide /\ [][NextWide]_vars

-----------------------------------------------------------------------------
(* History of an entity, for the statements below.                         *)

\* how often the triple (score s, label l) of node id was consumed
SeenCnt(id, s, l) == CopiesIn(<<id, s, l>>, seen)

\* how many triples of node id were consumed
NSeen(id) == SumSeq([k \in 1..(MaxScore * 2) |->
                        SeenCnt(id, ((k - 1) \div 2) + 1, (k - 1) % 2)])

\* how many label=1 triples of node id were consumed
NPos(id) == SumSeq([s \in 1..MaxScore |-> SeenCnt(id, s, 1)])

\* how many of the first n slots of row r hold (score s, label l)
SlotCnt(r, n, s, l) ==
    Cardinality({c \in 1..n : scr_buf[r][c] = s /\ lbl_buf[r][c] = l})

\* the first at_k slots of row r are a top-k of the triples consumed for it:
\* descending, as many real slots as there are triples (up to at_k), every
\* slot a consumed triple, and no consumed triple left out that scores
\* higher than a slot
TopKCorrect(r) ==
    LET id == gbl_uid[r]
        real == {c \in 1..at_k : scr_buf[r][c] # NegInf}
    IN /\ \A c \in 1..(at_k - 1) : scr_buf[r][c] >= scr_buf[r][c + 1]
       /\ Cardinality(real) = Min2(at_k, NSeen(id))
       /\ \A s \in Scores, l \in Labels :
             /\ SlotCnt(r, at_k, s, l) <= SeenCnt(id, s, l)
             /\ SlotCnt(r, at_k, s, l) < SeenCnt(id, s, l)
                   => \A c \in real : scr_buf[r][c] >= s

-----------------------------------------------------------------------------
(* The claims.                                                             *)

\* C1: after any prefix of batches of a duplicate-free stream, the first
\* at_k slots of every entity's buffer row hold the (score, label) pairs of
\* the at_k highest-scored triples consumed for it, in descending order, with
\* sentinel slots when fewer were consumed.
C1_TopKOfPrefix == \A r \in 1..gbl_cnt : TopKCorrect(r)


\* C2: once rank has returned, the count of every entity is the number of
\* label=1 triples consumed for it over all batches, whether or not they are
\* in its top-k window.
C2_PosCountsComplete ==
    pc \in {"returned", "scored"}
        => \A r \in 1..gbl_cnt : counts[r] = NPos(gbl_uid[r])

\* C2 witness: rank returned a count larger than the window for an entity.
C2_Witness ==
    /\ pc = "returned"
    /\ \E r \in 1..gbl_cnt : counts[r] > at_k /\ counts[r] = NPos(gbl_uid[r])

RECURSIVE BagToSeq(_)
\* the triples of a bag, with their multiplicity, ascending by id, score, label
BagToSeq(B) ==
    IF DOMAIN B = {} THEN <<>>
    ELSE LET key(t) == (t[1] * (MaxScore + 1) + t[2]) * 2 + t[3]
             m == CHOOSE t \in DOMAIN B : \A u \in DOMAIN B : key(t) <= key(u)
         IN <<[id |-> m[1], scr |-> m[2], lbl |-> m[3]]>>
                \o BagToSeq(B (-) SetToBag({m}))

\* the other partition of the triples consumed: all of them in one batch
OneBatch == LoaderBatch(BagToSeq(seen))

\* what row r can hold after rank has consumed OneBatch alone
OneBatchRow(r) ==
    IF seen = EmptyBag
    THEN {[c \in 1..(2 * at_k) |-> [scr |-> NegInf, lbl |-> Uninit]]}
    ELSE MergeRow([c \in 1..(2 * at_k) |-> [scr |-> NegInf, lbl |-> Uninit]], OneBatch, r)

\* the counts after rank has consumed OneBatch alone
OneBatchPosCnt ==
    IF seen = EmptyBag THEN PosCntInit ELSE AddPosCnt(PosCntInit, OneBatch)

\* C3: two partitions of the same duplicate-free triples into batches give
\* the same top-k labels per entity (up to the order of equal scores) and the
\* same counts: what rank returns equals what it returns for the same triples
\* in a single batch.
C3_SameAsOneBatch ==
    pc = "returned"
        => /\ counts = OneBatchPosCnt
           /\ \A r \in 1..gbl_cnt :
                 [c \in 1..at_k |-> lbl_buf[r][c]]
                     \in {[c \in 1..at_k |-> o[c].lbl] : o \in OneBatchRow(r)}

\* C4: the label matrix rank returns has at_k columns per entity.
C4_ReturnsKColumns ==
    pc = "returned" => \A r \in 1..gbl_cnt : Len(labels[r]) = at_k

\* how many of the first at_k slots of row r hold a label=1 triple
PosInTopK(r) ==
    Cardinality({c \in 1..at_k : scr_buf[r][c] # NegInf /\ lbl_buf[r][c] = 1})

\* C5: the recall composite computes for an entity with a positive count is
\* the number of label=1 triples among its at_k highest-scored ones divided
\* by its count.
C5_RecallOfTopK ==
    pc = "scored"
        => \A r \in 1..gbl_cnt :
              counts[r] > 0
                  => metric[1][r] = FDiv(ToFix(PosInTopK(r)), ToFix(counts[r]))

\* the label row has ones in its first min(p, count) slots and zeros after
IdealRow(row, p) ==
    \A c \in DOMAIN row : row[c] = (IF c <= Min2(p, Len(row)) THEN 1 ELSE 0)

\* how many ones a label row holds
Ones(row) == Cardinality({c \in DOMAIN row : row[c] = 1})

\* C6: for a positive count p and a label row whose first min(p, K) slots are
\* 1 and whose other slots are 0, ndcg_score is exactly 1.0.
C6_IdealRowScoresOne ==
    (pc = "scored" /\ counts[1] > 0 /\ IdealRow(labels[1], counts[1]))
        => metric[2][1] = Unit

\* C7: for a positive count p and a 0/1 label row with at most p ones,
\* ndcg_score lies in [0, 1].
C7_NdcgInUnitInterval ==
    (pc = "scored" /\ counts[1] > 0 /\ Ones(labels[1]) <= counts[1])
        => metric[2][1] \in 0..Unit

\* C7 witness: ndcg_score gave a value strictly between 0 and 1 for such a row.
C7_Witness ==
    /\ pc = "scored"
    /\ counts[1] > 0
    /\ Ones(labels[1]) <= counts[1]
    /\ Ones(labels[1]) > 1
    /\ metric[2][1] > 0
    /\ metric[2][1] < Unit

\* C8: for an entity whose count is 0 both metric functions give the
\* undefined marker, not 0, an infinity or an ordinary number.
C8_ZeroCountIsMarked ==
    pc = "scored"
        => \A r \in 1..gbl_cnt :
              counts[r] = 0 => (metric[1][r] = NaN /\ metric[2][r] = NaN)

\* C9: a returned label slot that holds no consumed triple carries the
\* undefined marker, never a value the metric formulas count as a label.
C9_SentinelLabelsMarked ==
    pc = "returned"
        => \A r \in 1..gbl_cnt : \A c \in DOMAIN labels[r] :
              scr_buf[r][c] = NegInf => labels[r][c] = NaN

\* C10: a batch without triples raises no error.
C10_EmptyBatchAccepted ==
    ~(pc = "raised" /\ Len(batch.src_idx) = 0)


\* the batch holds a triple of a node outside the registry
HasForeign(b) == \E i \in DOMAIN b.src_idx : SrcIds(b)[i] \notin NodeIds

\* C11: a batch with a triple of an unregistered entity makes rank fail: the
\* loop body never runs to its end on it, so nothing of that batch reaches a
\* row or a count, and rank never returns after it.
C11_ForeignIdRaises ==
    [][(pc = "body" /\ HasForeign(batch)) => pc' = "raised"]_vars

\* C11 witness: rank has raised on a batch that holds an unregistered entity
\* next to a registered one.
C11_Witness ==
    /\ pc = "raised"
    /\ HasForeign(batch)
    /\ \E i \in DOMAIN batch.src_idx : SrcIds(batch)[i] \in NodeIds


\* C12 as stated: the loop body leaves the count and the whole buffer row of
\* an entity that is not in the batch the same, scores and labels slot by slot.
C12_InactiveRowSame ==
    [][(pc = "body" /\ pc' = "loop")
          => \A r \in 1..gbl_cnt :
                ~GblMsk(batch)[r]
                   => /\ pos_cnt'[r] = pos_cnt[r]
                      /\ scr_buf'[r] = scr_buf[r]
                      /\ lbl_buf'[r] = lbl_buf[r]]_vars

\* C12: the loop body leaves the count of an entity that is not in the batch
\* the same, its scores the same slot by slot, and its row the same
\* (score, label) pairs: the sort of line 141 runs over every row, and labels
\* of slots of equal score can change places.
C12_InactiveRowKept ==
    [][(pc = "body" /\ pc' = "loop")
          => \A r \in 1..gbl_cnt :
                ~GblMsk(batch)[r]
                   => /\ pos_cnt'[r] = pos_cnt[r]
                      /\ scr_buf'[r] = scr_buf[r]
                      /\ \A s \in Range(scr_buf[r]), l \in Range(lbl_buf[r]) :
                            Cardinality({c \in 1..(2 * at_k) :
                                scr_buf'[r][c] = s /\ lbl_buf'[r][c] = l})
                            = Cardinality({c \in 1..(2 * at_k) :
                                scr_buf[r][c] = s /\ lbl_buf[r][c] = l})]_vars

\* C12 witness: the loop body is about to run on a batch without an entity
\* whose row holds two slots of equal score and different labels.
C12_Witness ==
    /\ pc = "body"
    /\ ~Raises(batch)
    /\ \E r \in 1..gbl_cnt :
          /\ ~GblMsk(batch)[r]
          /\ pos_cnt[r] > 0
          /\ \E c \in 1..(2 * at_k - 1) :
                /\ scr_buf[r][c] # NegInf
                /\ scr_buf[r][c] = scr_buf[r][c + 1]
                /\ lbl_buf[r][c] # lbl_buf[r][c + 1]


\* C13: at every point of the processing (the temporary matrices after the
\* scatter, which the batch-local top-k only selects from, and the buffer
\* after the write and the sort) a slot that is not a sentinel holds the score
\* and the label of one and the same observed triple.
C13_SlotsAreTriples ==
    /\ \A r \in 1..gbl_cnt, c \in 1..(2 * at_k) :
          scr_buf[r][c] # NegInf
             => SeenCnt(gbl_uid[r], scr_buf[r][c], lbl_buf[r][c]) > 0
    /\ (pc = "body" /\ ~Raises(batch))
          => \A row \in 1..RowCnt(batch), col \in 1..ColCnt(batch) :
                \A cell \in TmpCell(batch, row, col) :
                   cell.scr # NegInf
                      => \E i \in Writers(batch, row, col) :
                            /\ batch.edge_score[i] = cell.scr
                            /\ batch.edge_label[i] = cell.lbl


\* the triples of batch b that belong to the entity of global row r
OwnTriples(b, r) == {i \in DOMAIN b.src_idx : SrcIds(b)[i] = gbl_uid[r]}

\* the loop body has put every triple of batch b where its own entity is:
\* the row of the temporary matrices it is written to is the one the mask
\* gives to its entity, the count of every entity grows by the labels of its
\* own triples, and a slot that is new in a row of the buffer has the score
\* and the label of triples of that row's entity
OwnEntity(b) ==
    /\ \A r \in 1..gbl_cnt : \A i \in OwnTriples(b, r) : b.src_idx[i] = MskRank(b, r)
    /\ \A r \in 1..gbl_cnt :
          pos_cnt'[r] = pos_cnt[r]
              + SumSeq([i \in DOMAIN b.src_idx |->
                           IF i \in OwnTriples(b, r) THEN b.edge_label[i] ELSE 0])
    /\ \A r \in 1..gbl_cnt, c \in 1..(2 * at_k) :
          scr_buf'[r][c] # NegInf
             => \/ \E d \in 1..(2 * at_k) :
                      scr_buf[r][d] = scr_buf'[r][c] /\ lbl_buf[r][d] = lbl_buf'[r][c]
                \/ \E i, j \in OwnTriples(b, r) :
                      b.edge_score[i] = scr_buf'[r][c] /\ b.edge_label[j] = lbl_buf'[r][c]

\* n_id is src_ids.unique(): the batch numbers its source nodes by ascending id
Ranked(b) == b.n_id = SrcUid(b)

C15_ColumnsUniqueInGroup ==
    (pc = "body" /\ ~Raises(batch))
       => LET col_idx == ColIdx(batch)
              src_ids == SrcIds(batch)
              group(i) == {j \in DOMAIN src_ids : src_ids[j] = src_ids[i]}
          IN /\ \A i \in DOMAIN src_ids :
                   /\ col_idx[i] \in 1..Cardinality(group(i))
                   /\ \A j \in group(i) : col_idx[j] = col_idx[i] => j = i
             /\ \A row \in 1..RowCnt(batch), col \in 1..ColCnt(batch) :
                   Cardinality(Writers(batch, row, col)) <= 1


\* the (score, label) cells of the triples of batch b that belong to the
\* entity of global row r, in batch order
OwnCells(b, r) ==
    LET own == SortedSeq(OwnTriples(b, r))
    IN [k \in DOMAIN own |->
           [scr |-> b.edge_score[own[k]], lbl |-> b.edge_label[own[k]]]]

\* C16: when an entity has more than at_k triples in the batch the loop body
\* works on, the temporary matrices are at least as wide as its group, each of
\* its triples has a cell of its own in them, and the at_k cells the
\* batch-local top-k selects for its row (which are written to the second half
\* of its buffer row) are at_k highest-scored triples of the entity in the
\* batch.
C16_TopKOfLargeGroup ==
    (pc = "body" /\ ~Raises(batch))
       => \A r \in 1..gbl_cnt :
             Cardinality(OwnTriples(batch, r)) > at_k
                => /\ ColCnt(batch) >= Cardinality(OwnTriples(batch, r))
                   /\ \A i \in OwnTriples(batch, r) :
                         \E col \in 1..ColCnt(batch) :
                            Writers(batch, MskRank(batch, r), col) = {i}
                   /\ \A tmp \in TmpRow(batch, MskRank(batch, r)) :
                         TopK(tmp) \subseteq TopK(OwnCells(batch, r))


\* the triples of batch b that were consumed in an earlier batch
Repeats(b) ==
    {i \in DOMAIN b.src_idx :
        CopiesIn(<<SrcIds(b)[i], b.edge_score[i], b.edge_label[i]>>, seen) > 0}

\* C17: on a batch that presents again a pair of an earlier batch, the loop
\* body runs to its end without an error and does not deduplicate: the label
\* is added to the count again, and when the batch is that pair alone, the
\* pair is in the top-k window and the window has a lower slot, the pair holds
\* one more slot of the window afterwards.
C17_DuplicateCountedAgain ==
    [][(pc = "body" /\ Repeats(batch) # {})
          => /\ pc' = "loop"
             /\ \A r \in 1..gbl_cnt :
                   pos_cnt'[r] = pos_cnt[r]
                       + SumSeq([i \in DOMAIN batch.src_idx |->
                                    IF i \in OwnTriples(batch, r)
                                    THEN batch.edge_label[i] ELSE 0])
             /\ \A r \in 1..gbl_cnt :
                   LET s == batch.edge_score[1]
                       l == batch.edge_label[1]
                   IN (/\ Len(batch.src_idx) = 1
                       /\ OwnTriples(batch, r) = {1}
                       /\ SlotCnt(r, at_k, s, l) >= 1
                       /\ \E c \in 1..at_k : scr_buf[r][c] < s)
                         => Cardinality({c \in 1..at_k :
                                scr_buf'[r][c] = s /\ lbl_buf'[r][c] = l})
                            = SlotCnt(r, at_k, s, l) + 1]_vars

\* C17 witness: a label=1 pair presented in two batches holds two slots of
\* the top-k window of its entity and is counted twice.
C17_Witness ==
    /\ pc = "loop"
    /\ \E r \in 1..gbl_cnt, s \in Scores :
          /\ SeenCnt(gbl_uid[r], s, 1) = 2
          /\ SlotCnt(r, at_k, s, 1) = 2
          /\ pos_cnt[r] = 2


\* the labels of row r with the sentinel slots left out of the sum
DefinedLabels(r) ==
    [c \in 1..(2 * at_k) |-> IF scr_buf[r][c] = NegInf THEN 0 ELSE lbl_buf[r][c]]

\* the slots of row r that are not sentinels hold different observed triples
\* of its entity, no more of them with label 1 than its count, so that the
\* recall over them is at most 1
RowWithinObserved(r) ==
    /\ \A s \in Scores, l \in Labels :
          SlotCnt(r, 2 * at_k, s, l) <= SeenCnt(gbl_uid[r], s, l)
    /\ Ones(DefinedLabels(r)) <= pos_cnt[r]
    /\ pos_cnt[r] > 0
          => LET rec == recall_score(<<DefinedLabels(r)>>, <<pos_cnt[r]>>)[1]
             IN 0 <= rec /\ rec <= Unit

\* C18: for a duplicate-free stream of 0/1 labels, at every batch boundary
\* the slots of each 2*at_k-wide row that are not sentinels hold pairwise
\* distinct observed triples of the entity, at most as many of them with
\* label 1 as its count (so the recall over the defined slots is at most 1),
\* and no step makes a count smaller.
C18_RowsWithinObserved ==
    /\ [](\A r \in 1..gbl_cnt : RowWithinObserved(r))
    /\ [][\A r \in 1..gbl_cnt : pos_cnt'[r] >= pos_cnt[r]]_vars

====
